---------------------------- MODULE Spec2Model ----------------------------
(***************************************************************************)
(* crabtrap: a ptrace supervisor that attributes every syscall of a traced *)
(* process tree to a loaded object and checks it against a per-object      *)
(* allow/block policy.                                                     *)
(*                                                                         *)
(*   src/src/config.rs   Config::check                                     *)
(*   src/src/map.rs      Region::from_str, MemoryMap::from_str, lookup     *)
(*   src/src/lib.rs      handle_syscall, parent (the wait/continue loop)   *)
(*                                                                         *)
(* Strings that the program parses or compares are sequences of one-       *)
(* character strings.  Option<T> is a set with at most one element.        *)
(***************************************************************************)
EXTENDS Integers, Sequences, FiniteSets, TLC

(* ------------------------------ bounds -------------------------------- *)
\* lines of a maps text handed to MemoryMap::from_str
MaxLines == 2
\* addresses are 0..MaxAddr; kernel mappings lie in 1..MaxAddr
MaxAddr == 3
\* process identifiers are 1..MaxPid
MaxPid == 2
\* exit codes are 0..MaxExit
MaxExit == 1
\* frame records of a tracee's stack
MaxFrames == 1

(* ------------------------- program constants -------------------------- *)
\* {12} in the pattern of Region::from_str
HexWidth == 12
\* frame_pointer + 8 in handle_syscall: the saved LR of a frame record
LrOffset == 8

None == {}
Some(x) == {x}

(* ------------------------------ strings ------------------------------- *)
AppPath == <<"/", "a">>
LibPath == <<"/", "l">>
AltPath == <<"/", "o">>
HeapName == <<"[", "h", "]">>
NoName == <<>>

ObjectPaths == {AppPath, LibPath}

(* --------------------------- config.rs -------------------------------- *)
\* the syscall numbers a tracee is observed with
Sysnos ==
    {"write", "getpid", "mmap", "execve", "execveat", "clone", "munmap", "mremap"}

\* ConfigEntry { allow: Option<BTreeSet<Sysno>>, block: Option<BTreeSet<Sysno>> }
ConfigEntry(allow, block) == [allow |-> allow, block |-> block]

\* the arms of Config::check swapped: block tested before allow
CheckBlockFirst(cfg, loc, syscall) ==
    IF loc \in DOMAIN cfg
    THEN LET entry == cfg[loc]
         IN  IF \E blocked \in entry.block : syscall \in blocked
             THEN "Blocked"
             ELSE IF \E allowed \in entry.allow : syscall \in allowed
                  THEN "Allowed"
                  ELSE "Unknown"
    ELSE "Unknown"

\* the None arm of Config::check answering Blocked
CheckAbsentBlocked(cfg, loc, syscall) ==
    IF loc \in DOMAIN cfg
    THEN LET entry == cfg[loc]
         IN  IF \E allowed \in entry.allow : syscall \in allowed
             THEN "Allowed"
             ELSE IF \E blocked \in entry.block : syscall \in blocked
                  THEN "Blocked"
                  ELSE "Unknown"
    ELSE "Blocked"

\* Config::check(&self, loc, syscall) -> Check
Check(cfg, loc, syscall) ==
    IF loc \in DOMAIN cfg
    THEN LET entry == cfg[loc]
         IN  IF \E allowed \in entry.allow : syscall \in allowed
             THEN "Allowed"
             ELSE IF \E blocked \in entry.block : syscall \in blocked
                  THEN "Blocked"
                  ELSE "Unknown"
    ELSE "Unknown"

(* ----------------------------- map.rs --------------------------------- *)
HexDigits == <<"0", "1", "2", "3", "4", "5", "6", "7", "8", "9",
               "a", "b", "c", "d", "e", "f">>
UpperHexDigits == <<"A", "B", "C", "D", "E", "F">>

\* [[:xdigit:]]
IsXDigit(c) ==
    (\E i \in 1..Len(HexDigits) : HexDigits[i] = c)
      \/ (\E i \in 1..Len(UpperHexDigits) : UpperHexDigits[i] = c)

\* char::to_digit(16)
DigitValue(c) ==
    IF \E i \in 1..Len(HexDigits) : HexDigits[i] = c
    THEN (CHOOSE i \in 1..Len(HexDigits) : HexDigits[i] = c) - 1
    ELSE (CHOOSE i \in 1..Len(UpperHexDigits) : UpperHexDigits[i] = c) + 9

\* u64::from_str_radix(digits, 16) on a string of hex digits
RECURSIVE FromStrRadix16(_)
FromStrRadix16(ds) ==
    IF ds = <<>> THEN 0
    ELSE 16 * FromStrRadix16(SubSeq(ds, 1, Len(ds) - 1)) + DigitValue(ds[Len(ds)])

\* ^(?<start>[[:xdigit:]]{12})-(?<end>[[:xdigit:]]{12})[^/\[]*(?<path>.*)$
RegexCaptures(s) ==
    /\ Len(s) >= 2 * HexWidth + 1
    /\ \A i \in 1..HexWidth : IsXDigit(s[i])
    /\ s[HexWidth + 1] = "-"
    /\ \A i \in (HexWidth + 2)..(2 * HexWidth + 1) : IsXDigit(s[i])

\* the path group: what follows the longest run of [^/\[] after the end field
CapturePath(s) ==
    LET from == 2 * HexWidth + 2
        stops == {i \in from..Len(s) : s[i] \in {"/", "["}}
    IN  IF stops = {} THEN <<>>
        ELSE SubSeq(s, CHOOSE i \in stops : \A j \in stops : i <= j, Len(s))

Ok(v) == [ok |-> TRUE, val |-> v, err |-> "", line |-> <<>>]
Err(kind, l) == [ok |-> FALSE, val |-> <<>>, err |-> kind, line |-> l]

\* Region::from_str
RegionFromStr(s) ==
    IF ~RegexCaptures(s)
    THEN Err("RegexError", s)
    ELSE Ok([start |-> FromStrRadix16(SubSeq(s, 1, HexWidth)),
             end   |-> FromStrRadix16(SubSeq(s, HexWidth + 2, 2 * HexWidth + 1)),
             path  |-> CapturePath(s)])

\* str::lines(): split at "\n"; a final line ending yields no empty last line
RECURSIVE Lines(_)
Lines(s) ==
    IF s = <<>> THEN <<>>
    ELSE LET nls == {i \in 1..Len(s) : s[i] = "\n"}
         IN  IF nls = {} THEN <<s>>
             ELSE LET k == CHOOSE i \in nls : \A j \in nls : i <= j
                  IN  <<SubSeq(s, 1, k - 1)>> \o Lines(SubSeq(s, k + 1, Len(s)))

StartsWithSlash(path) == path # <<>> /\ path[1] = "/"

\* insertion behind every element whose start is <= : keeps equal starts in
\* their input order, as the stable slice::sort_by does
RECURSIVE InsertStable(_, _)
InsertStable(sorted, r) ==
    IF sorted = <<>> THEN <<r>>
    ELSE IF sorted[Len(sorted)].start <= r.start
         THEN Append(sorted, r)
         ELSE Append(InsertStable(SubSeq(sorted, 1, Len(sorted) - 1), r),
                     sorted[Len(sorted)])

RECURSIVE SortStable(_)
SortStable(files) ==
    IF files = <<>> THEN <<>>
    ELSE InsertStable(SortStable(SubSeq(files, 1, Len(files) - 1)), files[Len(files)])

\* no sort at all: the regions stay in input order
SortMissing(files) ==
    files

\* files.sort_by(|a, b| a.start.cmp(&b.start))
SortByStart(files) ==
    SortStable(files)

\* the filter dropped: every parsed region is retained
KeepAll(regions) ==
    regions

\* .filter(|region| region.path.starts_with('/'))
FilterFiles(regions) ==
    SelectSeq(regions, LAMBDA region : StartsWithSlash(region.path))

\* MemoryMap::from_str; collect::<Result<..>>() stops at the first Err
MemoryMapFromStr(s) ==
    LET ls == Lines(s)
        rs == [i \in 1..Len(ls) |-> RegionFromStr(ls[i])]
        bad == {i \in 1..Len(ls) : ~rs[i].ok}
    IN  IF bad # {}
        THEN rs[CHOOSE i \in bad : \A j \in bad : i <= j]
        ELSE Ok(SortByStart(FilterFiles([i \in 1..Len(ls) |-> rs[i].val])))

\* the end of a region taken as exclusive
ContainsHalfOpen(file, addr) == file.start <= addr /\ addr < file.end

\* the closure of find() in MemoryMap::lookup
Contains(file, addr) == file.start <= addr /\ addr <= file.end

RECURSIVE FindFirst(_, _)
FindFirst(files, addr) ==
    IF files = <<>> THEN None
    ELSE IF Contains(files[1], addr) THEN Some(files[1].path)
         ELSE FindFirst(Tail(files), addr)

\* a search from the back: the last containing region wins
RECURSIVE FindLast(_, _)
FindLast(files, addr) ==
    IF files = <<>> THEN None
    ELSE IF Contains(files[Len(files)], addr) THEN Some(files[Len(files)].path)
         ELSE FindLast(SubSeq(files, 1, Len(files) - 1), addr)

\* MemoryMap::lookup(&self, addr) -> Option<&str>
Lookup(files, addr) ==
    FindFirst(files, addr)

(* ------------------- the kernel's /proc/{pid}/maps --------------------- *)
\* format!("{:0width$x}")
RECURSIVE ToHex(_, _)
ToHex(n, width) ==
    IF width = 0 THEN <<>>
    ELSE Append(ToHex(n \div 16, width - 1), HexDigits[(n % 16) + 1])

\* permissions, offset, device and inode of a line, and the padding
MidFields == <<" ", "r", "-", "x", "p", " ", "0", "0", "0", "0", "0", "0", "0",
               "0", " ", "f", "e", ":", "0", "1", " ", "7", " ", " ">>

Vma(start, end, name) == [kind |-> "vma", start |-> start, end |-> end, name |-> name]

\* one line of the maps text, without its line ending.  "short" is an
\* address pair printed with fewer than HexWidth digits, "blank" an empty line
RenderLine(l) ==
    IF l.kind = "blank" THEN <<>>
    ELSE LET w == IF l.kind = "short" THEN HexWidth - 4 ELSE HexWidth
         IN  ToHex(l.start, w) \o <<"-">> \o ToHex(l.end, w) \o MidFields \o l.name

RECURSIVE RenderMaps(_)
RenderMaps(ls) ==
    IF ls = <<>> THEN <<>>
    ELSE RenderLine(ls[1]) \o <<"\n">> \o RenderMaps(Tail(ls))

Addrs == 0..MaxAddr

\* the lines a maps text is drawn from: every mapping with
\* 1 <= start < end <= MaxAddr under each kind of name, and malformed lines
MapLines ==
    LET names == {AppPath, LibPath, HeapName, NoName}
        pairs == {ab \in (1..MaxAddr) \X (1..MaxAddr) : ab[1] < ab[2]}
    IN  {Vma(ab[1], ab[2], n) : ab \in pairs, n \in names}
          \cup {[kind |-> "short", start |-> 1, end |-> 2, name |-> n] :
                    n \in {LibPath, HeapName}}
          \cup {[kind |-> "blank", start |-> 0, end |-> 0, name |-> NoName]}

MapTexts == UNION {[1..n -> MapLines] : n \in 0..MaxLines}

(* ------------------------------ state --------------------------------- *)
VARIABLES
    config,            \* the Config handed to execute
    st,                \* where parent is: "wait", "walk", "handled", "returned", "panicked"
    children,          \* parent: BTreeMap<Pid, Box<MemoryMap>>
    ignore_next_stop,  \* parent: BTreeSet<Pid>
    child_exit,        \* parent: Option<i32>
    result,            \* the ChildExit execute returned, once st = "returned"
    hs,                \* handle_syscall's locals for the stop being handled
    ops,               \* tracing-interface calls and probes of the last step
    proc,              \* kernel: pid -> "free" | "live"
    pend,              \* kernel: pid -> wait status not yet reported (Option)
    aspace,            \* kernel: pid -> the mappings of its address space
    root_exit,         \* kernel: the code the process forked by execute exited with
    vmas,              \* the lines the maps text was written from
    text,              \* the input of MemoryMap::from_str
    parsed,            \* its last result
    first,             \* its result on the text as first supplied
    reordered,         \* whether the lines were reordered since first
    looked,            \* the last MemoryMap::lookup: Option<[addr, loc]>
    checked            \* the last Config::check: Option<[loc, syscall, verdict]>

supVars == <<config, st, children, ignore_next_stop, child_exit, result, hs, ops>>
kernelVars == <<proc, pend, aspace, root_exit>>
mapVars == <<vmas, text, parsed, first, reordered, looked>>
vars == <<supVars, kernelVars, mapVars, checked>>

NotParsed == Err("NotParsed", <<>>)
NoResult == [kind |-> "none", code |-> 0, syscall |-> "", path |-> <<>>]
NoCall ==
    [pid |-> 0, syscall |-> "", pc |-> 0, x30 |-> 0, x29 |-> 0, frame_pointer |-> 0,
     mem |-> <<>>, earlier |-> {}]

\* the supervisor is not running
SupIdle ==
    /\ st = "idle"
    /\ children = <<>>
    /\ ignore_next_stop = {}
    /\ child_exit = None
    /\ result = NoResult
    /\ hs = NoCall
    /\ ops = <<>>
    /\ proc = <<>>
    /\ pend = <<>>
    /\ aspace = <<>>
    /\ root_exit = None

MapIdle ==
    /\ vmas = <<>>
    /\ text = <<>>
    /\ parsed = NotParsed
    /\ first = NotParsed
    /\ reordered = FALSE
    /\ looked = None

(* ------------------- Config::check on bounded policies ----------------- *)
PolicySysnoSets == SUBSET {"write", "mmap"}
OptionalSets == {None} \cup {Some(S) : S \in PolicySysnoSets}
ConfigEntries == {ConfigEntry(a, b) : a \in OptionalSets, b \in OptionalSets}
AllConfigs == UNION {[D -> ConfigEntries] : D \in SUBSET ObjectPaths}

InitPolicy ==
    /\ config \in AllConfigs
    /\ checked = None
    /\ SupIdle
    /\ MapIdle

CheckOp(loc, syscall) ==
    /\ checked' = Some([loc |-> loc, syscall |-> syscall,
                        verdict |-> Check(config, loc, syscall)])
    /\ UNCHANGED <<supVars, kernelVars, mapVars>>

NextPolicy ==
    \E loc \in ObjectPaths \cup {AltPath}, syscall \in Sysnos : CheckOp(loc, syscall)

SpecPolicy == InitPolicy /\ [][NextPolicy]_vars

(* ------------- MemoryMap::from_str and lookup on bounded texts --------- *)
InitMap ==
    /\ vmas \in MapTexts
    /\ text = RenderMaps(vmas)
    /\ parsed = NotParsed
    /\ first = NotParsed
    /\ reordered = FALSE
    /\ looked = None
    /\ config = <<>>
    /\ checked = None
    /\ SupIdle

FromStrOp ==
    /\ parsed = NotParsed
    /\ parsed' = MemoryMapFromStr(text)
    /\ first' = parsed'
    /\ UNCHANGED <<vmas, text, reordered, looked, supVars, kernelVars, checked>>

LookupOp(addr) ==
    /\ parsed.ok
    /\ looked' = Some([addr |-> addr, loc |-> Lookup(parsed.val, addr)])
    /\ UNCHANGED <<vmas, text, parsed, first, reordered, supVars, kernelVars, checked>>

\* the same lines in another order (lines i and i+1 exchanged), parsed again
ReorderOp(i) ==
    /\ first # NotParsed
    /\ i \in 1..(Len(vmas) - 1)
    /\ vmas' = [vmas EXCEPT ![i] = vmas[i + 1], ![i + 1] = vmas[i]]
    /\ text' = RenderMaps(vmas')
    /\ parsed' = MemoryMapFromStr(text')
    /\ reordered' = TRUE
    /\ looked' = None
    /\ UNCHANGED <<first, supVars, kernelVars, checked>>

NextMap ==
    \/ FromStrOp
    \/ \E addr \in 0..(MaxAddr + 1) : LookupOp(addr)
    \/ \E i \in 1..MaxLines : ReorderOp(i)

SpecMap == InitMap /\ [][NextMap]_vars

(* ------------------------- lib.rs: the kernel --------------------------- *)
\* the pid fork() returned to execute
child == 1

Pids == 1..MaxPid
ExitCodes == 0..MaxExit
Signals == {"SIGSTOP", "SIGUSR1"}
\* PTRACE_EVENT_FORK, PTRACE_EVENT_VFORK, PTRACE_EVENT_CLONE
ForkEvents == {"FORK", "VFORK", "CLONE"}

\* address spaces a tracee can have: an executable next to a library, and
\* one where an anonymous region took the executable's place
ImgA == <<Vma(1, 2, AppPath), Vma(2, 3, LibPath)>>
ImgB == <<Vma(1, 2, HeapName), Vma(2, 3, LibPath)>>
Images == {ImgA, ImgB}

\* MemoryMap::from_pid: read /proc/{pid}/maps and parse it
Snapshot[img \in Images] == MemoryMapFromStr(RenderMaps(img))
FromPid(pid, asp) == Snapshot[asp[pid]]

\* frame records lie at 16, 32, ...: [FP_prev, LR_saved]; Wild is a non-null
\* pointer into memory the tracer cannot read
FrameAddrs == {16 * k : k \in 1..MaxFrames}
Wild == 16 * (MaxFrames + 1)
FramePtrs == {0} \cup FrameAddrs \cup {Wild}
Readable(a) == \E f \in FrameAddrs : a = f \/ a = f + LrOffset

\* the configurations execute is run under
EmptyConfig == [loc \in {} |-> ConfigEntry(None, None)]
BlockLib == (LibPath :> ConfigEntry(None, Some({"write"})))
AllowApp == (AppPath :> ConfigEntry(Some({"write"}), None))
AllowAppBlockLib ==
    (AppPath :> ConfigEntry(Some({"write"}), None))
      @@ (LibPath :> ConfigEntry(None, Some({"write", "mmap"})))
Configs == {EmptyConfig, BlockLib, AllowApp, AllowAppBlockLib}

Exited(code) == [kind |-> "Exited", code |-> code, syscall |-> "", path |-> <<>>]
IllegalSyscall(syscall, loc) ==
    [kind |-> "IllegalSyscall", code |-> 0, syscall |-> syscall, path |-> loc]

\* entries of ops
Op(name, pid, addr, sig) ==
    [op |-> name, pid |-> pid, addr |-> addr, sig |-> sig, status |-> ""]
\* what waitpid(None, None) returned at the head of the loop
Waited(status, pid, sig) ==
    [op |-> "waitpid", pid |-> pid, addr |-> 0, sig |-> sig, status |-> status]
\* ptrace::syscall(pid, sig)
Resume(pid, sig) == Op("syscall", pid, 0, sig)
Probe(pid, addr) == Op("probe", pid, addr, "")
Peek(pid, addr) == Op("peek", pid, addr, "")

(* ------------------------ lib.rs: parent, after startup ---------------- *)
Init ==
    /\ config \in Configs
    /\ st = "wait"
    /\ \E img \in Images :
         /\ aspace = [p \in Pids |-> IF p = child THEN img ELSE <<>>]
         /\ children = (child :> FromPid(child, aspace).val)
    /\ ignore_next_stop = {}
    /\ child_exit = None
    /\ result = NoResult
    /\ hs = NoCall
    /\ ops = <<>>
    /\ proc = [p \in Pids |-> IF p = child THEN "live" ELSE "free"]
    /\ pend = [p \in Pids |-> None]
    /\ root_exit = None
    /\ MapIdle
    /\ checked = None

Running(p) == proc[p] = "live" /\ pend[p] = None

\* a tracee forks: the kernel stops it with a fork event and creates the new
\* tracee with a SIGSTOP stop to report; waitpid may report either first
KernelFork(p, c) ==
    /\ st = "wait"
    /\ Running(p)
    /\ proc[c] = "free"
    /\ proc' = [proc EXCEPT ![c] = "live"]
    /\ aspace' = [aspace EXCEPT ![c] = aspace[p]]
    /\ pend' = [pend EXCEPT ![p] = Some([kind |-> "ForkEvent", pid |-> c, sig |-> ""]),
                            ![c] = Some([kind |-> "Stopped", pid |-> 0, sig |-> "SIGSTOP"])]
    /\ UNCHANGED <<supVars, root_exit, mapVars, checked>>

\* Err(Errno::ECHILD)
WaitEChild ==
    /\ st = "wait"
    /\ \A p \in Pids : proc[p] = "free"
    /\ IF child_exit = None
       THEN st' = "panicked" /\ result' = result
       ELSE st' = "returned" /\ result' = Exited(CHOOSE code \in child_exit : TRUE)
    /\ ops' = <<Waited("ECHILD", 0, "")>>
    /\ UNCHANGED <<config, children, ignore_next_stop, child_exit, hs,
                   kernelVars, mapVars, checked>>

\* Ok(WaitStatus::Exited(pid, code)): the new value of child_exit
RecordExit(pid, code) ==
    IF pid = child THEN Some(code) ELSE child_exit

\* the Exited arm returning from parent as soon as the root has exited
ExitedArmReturns(pid) ==
    IF pid = child THEN "returned" ELSE "handled"

\* where the Exited arm leaves parent: at the end of the loop body
ExitedArm(pid) ==
    "handled"

WaitExited(p, code) ==
    /\ st = "wait"
    /\ Running(p)
    /\ proc' = [proc EXCEPT ![p] = "free"]
    /\ aspace' = [aspace EXCEPT ![p] = <<>>]
    /\ root_exit' = IF p = child /\ root_exit = None THEN Some(code) ELSE root_exit
    /\ child_exit' = RecordExit(p, code)
    /\ st' = ExitedArm(p)
    /\ ops' = <<Waited("Exited", p, "")>>
    /\ UNCHANGED <<config, children, ignore_next_stop, result, hs, pend, mapVars, checked>>

\* the stop of a tracee that took a SIGSTOP the tracer injected: the tracee
\* stops again (group-stop) and waitpid reports Stopped(pid, SIGSTOP) anew
GroupStop == [kind |-> "GroupStop", pid |-> 0, sig |-> "SIGSTOP"]

\* what the tracee does once resumed from the stop `pending` with `sig`
\* injected: a SIGSTOP injected at a signal-delivery-stop stops it again; at
\* a group-stop the injected signal is ignored
AfterResume(pending, sig) ==
    IF sig = "SIGSTOP" /\ GroupStop \notin pending THEN Some(GroupStop) ELSE None

\* the signal the Stopped arm passes to ptrace::syscall
Injected(pid, signal) ==
    IF signal = "SIGSTOP" /\ pid \in ignore_next_stop THEN "" ELSE signal

\* a mark consumed by whatever signal stops the tracee
MarksAfterAnySignal(pid, signal) ==
    ignore_next_stop \ {pid}

\* ignore_next_stop after the Stopped arm
MarksAfterStop(pid, signal) ==
    IF signal = "SIGSTOP" /\ pid \in ignore_next_stop
    THEN ignore_next_stop \ {pid}
    ELSE ignore_next_stop

\* Ok(WaitStatus::Stopped(pid, signal)): the first stop of a new tracee, a
\* group-stop, or the delivery of a signal sent to the tracee
WaitStopped(p, signal) ==
    /\ st = "wait"
    /\ proc[p] = "live"
    /\ \/ pend[p] = None
       \/ \E s \in pend[p] : s.kind \in {"Stopped", "GroupStop"} /\ s.sig = signal
    /\ ignore_next_stop' = MarksAfterStop(p, signal)
    /\ ops' = <<Waited("Stopped", p, signal), Resume(p, Injected(p, signal))>>
    /\ pend' = [pend EXCEPT ![p] = AfterResume(pend[p], Injected(p, signal))]
    /\ st' = "handled"
    /\ UNCHANGED <<config, children, child_exit, result, hs, proc, aspace, root_exit,
                   mapVars, checked>>

\* Ok(WaitStatus::PtraceEvent(pid, _, PTRACE_EVENT_EXEC)): the tracee runs a
\* new image
WaitExec(p, img) ==
    /\ st = "wait"
    /\ Running(p)
    /\ aspace' = [aspace EXCEPT ![p] = img]
    /\ ops' = <<Waited("EXEC", p, ""), Resume(p, "")>>
    /\ st' = "handled"
    /\ UNCHANGED <<config, children, ignore_next_stop, child_exit, result, hs, proc, pend,
                   root_exit, mapVars, checked>>

\* the result of the insert ignored
InsertUnchecked(new_child_pid) ==
    FALSE

\* !ignore_next_stop.insert(new_child_pid): the pid was in the set already
InsertFails(new_child_pid) ==
    new_child_pid \in ignore_next_stop

\* Ok(WaitStatus::PtraceEvent(pid, _, FORK | VFORK | CLONE))
WaitFork(p, event) ==
    /\ st = "wait"
    /\ proc[p] = "live"
    /\ event \in ForkEvents
    /\ \E s \in pend[p] :
         /\ s.kind = "ForkEvent"
         /\ LET new_child_pid == s.pid
            IN  IF InsertFails(new_child_pid)
                THEN /\ st' = "panicked"
                     /\ ops' = <<Waited(event, p, ""), Op("geteventmsg", p, 0, "")>>
                     /\ UNCHANGED ignore_next_stop
                ELSE /\ st' = "handled"
                     /\ ignore_next_stop' = ignore_next_stop \cup {new_child_pid}
                     /\ ops' = <<Waited(event, p, ""), Op("geteventmsg", p, 0, ""),
                               Resume(p, "")>>
    /\ pend' = [pend EXCEPT ![p] = None]
    /\ UNCHANGED <<config, children, child_exit, result, hs, proc, aspace, root_exit,
                   mapVars, checked>>

\* Ok(status) for any other status (a tracee killed by a signal, a
\* vfork-done or exit event), Err(errno) for any other errno (EINTR)
OtherStatuses == {"Signaled", "VFORK_DONE", "EXIT", "EINTR"}

WaitUnexpected(p, status) ==
    /\ st = "wait"
    /\ Running(p)
    /\ status \in OtherStatuses
    /\ IF status = "Signaled"
       THEN proc' = [proc EXCEPT ![p] = "free"] /\ aspace' = [aspace EXCEPT ![p] = <<>>]
       ELSE UNCHANGED <<proc, aspace>>
    /\ st' = "panicked"
    /\ ops' = <<Waited(status, p, "")>>
    /\ UNCHANGED <<config, children, ignore_next_stop, child_exit, result, hs, pend,
                   root_exit, mapVars, checked>>

\* the end of a match arm: back to waitpid
LoopAgain ==
    /\ st = "handled"
    /\ st' = "wait"
    /\ ops' = <<>>
    /\ hs' = NoCall
    /\ UNCHANGED <<config, children, ignore_next_stop, child_exit, result,
                   kernelVars, mapVars, checked>>

(* ---------------------- lib.rs: handle_syscall ------------------------- *)
\* mmap left out of the set
RefreshWithoutMmap == {"execve", "execveat", "clone", "munmap", "mremap"}

\* the BTreeSet of handle_syscall: calls after which the map is read again
RefreshSysnos == {"execve", "execveat", "clone", "mmap", "munmap", "mremap"}

\* map.lookup(addr) and, on a hit, config.check(loc, syscall)
Verdict(files, addr, syscall) ==
    LET found == Lookup(files, addr)
    IN  IF found = None
        THEN [check |-> "Unknown", hit |-> FALSE, path |-> <<>>]
        ELSE LET loc == CHOOSE l \in found : TRUE
             IN  [check |-> Check(config, loc, syscall), hit |-> TRUE, path |-> loc]

\* default-deny: a verdict that is not Allowed on a known object blocks
OutcomeDefaultDeny(v) ==
    IF v.check = "Allowed" THEN "permit"
    ELSE IF v.hit THEN "block" ELSE "next"

\* an Allowed verdict treated like Unknown: a later Blocked probe wins
OutcomeAllowedSkipped(v) ==
    IF v.check = "Blocked" THEN "block" ELSE "next"

\* a Blocked verdict treated like Unknown: the walk goes on
OutcomeNeverBlocks(v) ==
    IF v.check = "Allowed" THEN "permit" ELSE "next"

\* the match on config.check(loc, syscall) in both loops
Outcome(v) ==
    IF v.check = "Allowed" THEN "permit"
    ELSE IF v.check = "Blocked" THEN "block" ELSE "next"

\* return None to parent, which resumes the tracee
Permit(p, log) ==
    /\ st' = "handled"
    /\ ops' = Append(log, Resume(p, ""))
    /\ result' = result

\* return Some(IllegalSyscall(..)) to parent, which kills the tracee and returns
Block(p, log, syscall, loc) ==
    /\ st' = "returned"
    /\ ops' = Append(log, Op("kill", p, 0, ""))
    /\ result' = IllegalSyscall(syscall, loc)

Panic(log) ==
    /\ st' = "panicked"
    /\ ops' = log
    /\ result' = result

\* the calls that change the caller's address space
LayoutSysnos == {"execve", "execveat", "mmap", "munmap", "mremap"}

\* Ok(WaitStatus::PtraceSyscall(pid)): the or_insert of parent, then
\* handle_syscall up to its first loop.  The tracee stopped with `syscall` in
\* x8 and pc, x30, x29 as given; img is its address space at the stop, which
\* differs from the one before only at a call that changes the layout
WaitSyscall(p, syscall, pc, x30, x29, img) ==
    /\ st = "wait"
    /\ Running(p)
    /\ syscall \in LayoutSysnos \/ img = aspace[p]
    /\ aspace' = [aspace EXCEPT ![p] = img]
    /\ LET snap == FromPid(p, aspace')
           refresh == syscall \in RefreshSysnos
           log0 == <<Waited("PtraceSyscall", p, ""), Op("maps", p, 0, ""),
                     Op("getregs", p, 0, "")>>
                     \o (IF refresh THEN <<Op("maps", p, 0, "")>> ELSE <<>>)
       IN  IF ~snap.ok
           THEN /\ Panic(<<Waited("PtraceSyscall", p, ""), Op("maps", p, 0, "")>>)
                /\ pc = 0 /\ x30 = 0 /\ x29 = 0
                /\ UNCHANGED <<children, hs>>
           ELSE LET inserted == IF p \in DOMAIN children THEN children
                                ELSE (p :> snap.val) @@ children
                    map == IF refresh THEN snap.val ELSE inserted[p]
                    v1 == Verdict(map, pc, syscall)
                    v2 == Verdict(map, x30, syscall)
                    call == [pid |-> p, syscall |-> syscall, pc |-> pc, x30 |-> x30,
                             x29 |-> x29, frame_pointer |-> 0, mem |-> <<>>,
                             earlier |-> {}]
                IN  /\ children' = [inserted EXCEPT ![p] = map]
                    /\ IF Outcome(v1) = "permit"
                       THEN /\ Permit(p, log0 \o <<Probe(p, pc)>>)
                            /\ hs' = call
                       ELSE IF Outcome(v1) = "block"
                       THEN /\ Block(p, log0 \o <<Probe(p, pc)>>, syscall, v1.path)
                            /\ hs' = call
                       ELSE IF Outcome(v2) = "permit"
                       THEN /\ Permit(p, log0 \o <<Probe(p, pc), Probe(p, x30)>>)
                            /\ hs' = [call EXCEPT !.earlier = {pc}]
                       ELSE IF Outcome(v2) = "block"
                       THEN /\ Block(p, log0 \o <<Probe(p, pc), Probe(p, x30)>>,
                                     syscall, v2.path)
                            /\ hs' = [call EXCEPT !.earlier = {pc}]
                       ELSE IF x29 = 0
                       THEN /\ Permit(p, log0 \o <<Probe(p, pc), Probe(p, x30)>>)
                            /\ hs' = [call EXCEPT !.earlier = {pc, x30}]
                       ELSE /\ st' = "walk"
                            /\ ops' = log0 \o <<Probe(p, pc), Probe(p, x30)>>
                            /\ result' = result
                            /\ hs' = [call EXCEPT !.earlier = {pc, x30},
                                                  !.frame_pointer = x29]
    /\ UNCHANGED <<config, ignore_next_stop, child_exit, proc, pend, root_exit,
                   mapVars, checked>>

\* the saved LR read at the frame pointer itself
SavedLrAtFp(frame_pointer) ==
    frame_pointer

\* (frame_pointer + 8) as AddressType: where the frame record keeps the LR
SavedLrAddr(frame_pointer) ==
    frame_pointer + LrOffset

\* what ptrace::read(pid, a) returns: the word read before at a, if any
ReadsAs(a, v) == a \in DOMAIN hs.mem => hs.mem[a] = v

\* one turn of the frame loop of handle_syscall, entered with frame_pointer
\* # 0: saved_lr is the word read at frame_pointer + 8 and next_fp the word
\* read at frame_pointer (the tracee is stopped, so a word read twice reads
\* the same)
WalkFrame(saved_lr, next_fp) ==
    /\ st = "walk"
    /\ LET p == hs.pid
           fp == hs.frame_pointer
           v == Verdict(children[p], saved_lr, hs.syscall)
           log1 == <<Peek(p, SavedLrAddr(fp)), Probe(p, saved_lr)>>
       IN  IF ~Readable(SavedLrAddr(fp))
           THEN /\ Panic(<<Peek(p, SavedLrAddr(fp))>>)
                /\ saved_lr = 0 /\ next_fp = 0
                /\ hs' = hs
           ELSE /\ ReadsAs(SavedLrAddr(fp), saved_lr)
                /\ IF Outcome(v) = "permit"
                   THEN /\ Permit(p, log1)
                        /\ next_fp = 0
                        /\ hs' = hs
                   ELSE IF Outcome(v) = "block"
                   THEN /\ Block(p, log1, hs.syscall, v.path)
                        /\ next_fp = 0
                        /\ hs' = hs
                   ELSE IF ~Readable(fp)
                   THEN /\ Panic(Append(log1, Peek(p, fp)))
                        /\ next_fp = 0
                        /\ hs' = hs
                   ELSE /\ ReadsAs(fp, next_fp)
                        /\ hs' = [hs EXCEPT
                                    !.frame_pointer = next_fp,
                                    !.earlier = @ \cup {saved_lr},
                                    !.mem = ((fp :> next_fp)
                                               @@ ((SavedLrAddr(fp)) :> saved_lr) @@ @)]
                        /\ IF next_fp = 0
                           THEN Permit(p, Append(log1, Peek(p, fp)))
                           ELSE /\ st' = "walk"
                                /\ ops' = Append(log1, Peek(p, fp))
                                /\ result' = result
    /\ UNCHANGED <<config, children, ignore_next_stop, child_exit, kernelVars,
                   mapVars, checked>>

\* register files of tracees in a process tree: a write issued in the library
\* and called from the executable, a write whose attribution rests on the
\* frame records, an mmap of the executable returning into the library, a
\* call with a frame pointer the tracer cannot follow, and the other calls of
\* the refresh set issued from unmapped code
CallSites ==
    {[syscall |-> "write", pc |-> 3, x30 |-> 1, x29 |-> 0],
     [syscall |-> "write", pc |-> 0, x30 |-> 0, x29 |-> 16],
     [syscall |-> "mmap", pc |-> 1, x30 |-> 3, x29 |-> 0],
     [syscall |-> "getpid", pc |-> 1, x30 |-> 1, x29 |-> Wild]}
      \cup {[syscall |-> n, pc |-> 0, x30 |-> 0, x29 |-> 0] :
               n \in {"execve", "execveat", "clone", "munmap", "mremap"}}

\* the supervisor over a tree of tracees
Next ==
    \/ \E p \in Pids, c \in Pids : KernelFork(p, c)
    \/ WaitEChild
    \/ \E p \in Pids, code \in ExitCodes : WaitExited(p, code)
    \/ \E p \in Pids, r \in CallSites, img \in Images :
          WaitSyscall(p, r.syscall, r.pc, r.x30, r.x29, img)
    \/ \E saved_lr \in Addrs, next_fp \in FramePtrs : WalkFrame(saved_lr, next_fp)
    \/ \E p \in Pids, signal \in Signals : WaitStopped(p, signal)
    \/ \E p \in Pids, img \in Images : WaitExec(p, img)
    \/ \E p \in Pids, event \in ForkEvents : WaitFork(p, event)
    \/ \E p \in Pids, status \in OtherStatuses : WaitUnexpected(p, status)
    \/ LoopAgain

Spec == Init /\ [][Next]_vars

\* the supervisor over a target that never forks, stopping with every
\* register file
NextWalk ==
    \/ WaitEChild
    \/ \E code \in ExitCodes : WaitExited(child, code)
    \/ \E syscall \in Sysnos, pc \in Addrs, x30 \in Addrs, x29 \in FramePtrs,
          img \in Images : WaitSyscall(child, syscall, pc, x30, x29, img)
    \/ \E saved_lr \in Addrs, next_fp \in FramePtrs : WalkFrame(saved_lr, next_fp)
    \/ \E signal \in Signals : WaitStopped(child, signal)
    \/ \E img \in Images : WaitExec(child, img)
    \/ \E status \in OtherStatuses : WaitUnexpected(child, status)
    \/ LoopAgain

SpecWalk == Init /\ [][NextWalk]_vars

(* ============================== claims ================================ *)
Min(S) == CHOOSE i \in S : \A j \in S : i <= j
ProbesOf(log) == SelectSeq(log, LAMBDA o : o.op = "probe")
ResumesOf(log) == SelectSeq(log, LAMBDA o : o.op = "syscall")

\* the syscall sets of an entry that name syscall
InAllow(loc, syscall) ==
    loc \in DOMAIN config /\ \E a \in config[loc].allow : syscall \in a
InBlock(loc, syscall) ==
    loc \in DOMAIN config /\ \E b \in config[loc].block : syscall \in b

\* C1: check(q, s) is Allowed iff q is a key of the policy and s is in q's
\* allow set; otherwise Blocked iff q is a key and s is in q's block set;
\* otherwise Unknown.  So a syscall in both sets is Allowed, and an entry
\* with both sets absent answers Unknown.
C1_CheckContract ==
    \A c \in checked :
        /\ c.verdict \in {"Allowed", "Blocked", "Unknown"}
        /\ c.verdict = "Allowed" <=> InAllow(c.loc, c.syscall)
        /\ c.verdict = "Blocked" <=>
              (~InAllow(c.loc, c.syscall) /\ InBlock(c.loc, c.syscall))
        /\ (c.loc \in DOMAIN config /\ config[c.loc].allow = None
              /\ config[c.loc].block = None) => c.verdict = "Unknown"

\* a check of a syscall that is in the allow set and in the block set
C1_Witness ==
    \E c \in checked :
        InAllow(c.loc, c.syscall) /\ InBlock(c.loc, c.syscall) /\ c.verdict = "Allowed"

\* the mappings with a file path among the lines of the text
FileLines == {k \in 1..Len(vmas) : vmas[k].name # <<>> /\ vmas[k].name[1] = "/"}
RegionOf(l) == [start |-> l.start, end |-> l.end, path |-> l.name]

\* C7: a successfully parsed MemoryMap is sorted ascending by start, every
\* retained path begins with '/', no pseudo-region or anonymous region is
\* retained, and every input line whose path begins with '/' is retained.
C7_ParsedMap ==
    parsed.ok =>
        LET files == parsed.val
        IN  /\ \A i \in 1..Len(files), j \in 1..Len(files) :
                  i < j => files[i].start <= files[j].start
            /\ \A i \in 1..Len(files) :
                  /\ files[i].path # <<>> /\ files[i].path[1] = "/"
                  /\ files[i].path \notin {HeapName, NoName}
            /\ Len(files) = Cardinality(FileLines)
            /\ \A k \in FileLines :
                  Cardinality({i \in 1..Len(files) : files[i] = RegionOf(vmas[k])})
                    = Cardinality({j \in FileLines : vmas[j] = vmas[k]})

\* two file mappings given in descending order of start, both retained
C7_Witness ==
    /\ parsed.ok
    /\ Len(vmas) = 2
    /\ Len(parsed.val) = 2
    /\ vmas[1].start > vmas[2].start

\* the regions of the parsed map that contain addr, by index
Hits(addr) ==
    {i \in 1..Len(parsed.val) :
        parsed.val[i].start <= addr /\ addr <= parsed.val[i].end}

\* C8: lookup(addr) returns the path of the first region, in the map's order,
\* with start <= addr <= end, and nothing iff no region contains addr.
C8_LookupFirst ==
    \A l \in looked :
        IF Hits(l.addr) = {} THEN l.loc = None
        ELSE l.loc = Some(parsed.val[Min(Hits(l.addr))].path)

\* a lookup of an address that two regions with different paths contain
C8_Witness ==
    \E l \in looked :
        \E i \in Hits(l.addr), j \in Hits(l.addr) :
            i < j /\ parsed.val[i].path # parsed.val[j].path

\* C9, as claimed: for every region R of a parsed map, lookup(R.start) and
\* lookup(R.end) both return R's path, also next to an adjacent mapping with
\* another path.
C9_Claimed ==
    \A l \in looked :
        \A i \in 1..Len(parsed.val) :
            (l.addr = parsed.val[i].start \/ l.addr = parsed.val[i].end)
              => l.loc = Some(parsed.val[i].path)

\* C9, amended: for every region R (start <= end) of a parsed map,
\* lookup(R.start) and lookup(R.end) return a path: that of the first region
\* of the map containing the address, which is R's path unless a region
\* with another path that precedes R in the map contains the address too.
C9_Boundaries ==
    \A l \in looked :
        \A i \in 1..Len(parsed.val) :
            LET R == parsed.val[i]
            IN  ((l.addr = R.start \/ l.addr = R.end) /\ R.start <= R.end) =>
                  /\ l.loc # None
                  /\ l.loc = Some(parsed.val[Min(Hits(l.addr))].path)
                  /\ (\A j \in Hits(l.addr) : j < i => parsed.val[j].path = R.path)
                        => l.loc = Some(R.path)

\* a lookup of the address where one region ends and the next, of another
\* path, starts
C9_Witness ==
    \E l \in looked :
        /\ Len(parsed.val) = 2
        /\ parsed.val[1].end = parsed.val[2].start
        /\ parsed.val[1].path # parsed.val[2].path
        /\ l.addr = parsed.val[2].start
        /\ l.loc = Some(parsed.val[1].path)

\* C10, as claimed: from_str yields an equal MemoryMap for every reordering
\* of the lines of a valid text, also when two retained regions share a start.
C10_Claimed ==
    (first.ok /\ parsed.ok) => parsed.val = first.val

DistinctStarts(files) ==
    \A i \in 1..Len(files), j \in 1..Len(files) :
        i # j => files[i].start # files[j].start

\* C10, amended: from_str yields an equal MemoryMap for every reordering of
\* the lines of a valid text in which no two retained regions share a start
\* address.
C10_Permutation ==
    (first.ok /\ parsed.ok /\ DistinctStarts(first.val)) => parsed.val = first.val

\* two retained regions with different starts, parsed again after their
\* lines were exchanged
C10_Witness ==
    /\ reordered
    /\ parsed.ok
    /\ Len(parsed.val) = 2
    /\ vmas[1].start > vmas[2].start
    /\ parsed.val = first.val

(* ---------------------- claims about the supervisor -------------------- *)
\* the object an address belongs to in the map the supervisor holds for pid
PathAt(pid, addr) ==
    LET files == children[pid]
        hits == {i \in 1..Len(files) :
                    files[i].start <= addr /\ addr <= files[i].end}
    IN  IF hits = {} THEN None ELSE Some(files[Min(hits)].path)

\* the verdict of the policy on the probe of addr for syscall
VerdictAt(pid, addr, syscall) ==
    IF \E loc \in PathAt(pid, addr) : InAllow(loc, syscall) THEN "Allowed"
    ELSE IF \E loc \in PathAt(pid, addr) : InBlock(loc, syscall) THEN "Blocked"
    ELSE "Unknown"

\* the addresses probed at the syscall-stop being handled
Probed == hs.earlier \cup {ProbesOf(ops)[i].addr : i \in 1..Len(ProbesOf(ops))}
LastProbe == ProbesOf(ops)[Len(ProbesOf(ops))]
ReturnedIllegal == st = "returned" /\ result.kind = "IllegalSyscall"
SyscallStopDone == hs # NoCall /\ st \in {"handled", "returned"}

\* C2: whenever execute returns IllegalSyscall(n, p), a tracee was at a
\* syscall-stop with syscall number n, a probe address of that stop's walk
\* was looked up to path p in the tracee's MemoryMap, check(p, n) was
\* Blocked, and no probe earlier in the walk order had verdict Allowed.
C2_IllegalSyscall ==
    ReturnedIllegal =>
        /\ hs # NoCall
        /\ hs.pid \in DOMAIN children
        /\ result.syscall = hs.syscall
        /\ ProbesOf(ops) # <<>>
        /\ LastProbe.pid = hs.pid
        /\ PathAt(hs.pid, LastProbe.addr) = Some(result.path)
        /\ VerdictAt(hs.pid, LastProbe.addr, result.syscall) = "Blocked"
        /\ \A a \in hs.earlier : VerdictAt(hs.pid, a, hs.syscall) # "Allowed"

\* IllegalSyscall returned for a saved LR read from a frame record
C2_Witness ==
    /\ ReturnedIllegal
    /\ \E i \in 1..Len(ops) : ops[i].op = "peek"
    /\ hs.earlier # {}

\* C3: at a syscall-stop of p whose pipeline yields a block the supervisor
\* kills p and returns IllegalSyscall without resuming p from that stop, and
\* nothing happens after; p is resumed from a syscall-stop only when no
\* probe of the stop was Blocked.
C3_BlockKills ==
    /\ ReturnedIllegal =>
          /\ ops[Len(ops)] = Op("kill", hs.pid, 0, "")
          /\ ResumesOf(ops) = <<>>
          /\ ~ENABLED Next
    /\ (hs # NoCall /\ ResumesOf(ops) # <<>>) =>
          /\ st = "handled"
          /\ result.kind = "none"
          /\ ResumesOf(ops) = <<Resume(hs.pid, "")>>
          /\ \A a \in Probed : VerdictAt(hs.pid, a, hs.syscall) # "Blocked"

\* a descendant of the root killed at its syscall-stop
C3_Witness ==
    /\ ReturnedIllegal
    /\ hs.pid # child
    /\ ops[Len(ops)].op = "kill"

\* a probe that is Unknown: the address is in no file-backed region, or the
\* object is absent from the policy, or the syscall is in neither set
UnknownProbe(pid, addr, syscall) ==
    \A loc \in PathAt(pid, addr) :
        \/ loc \notin DOMAIN config
        \/ /\ \A a \in config[loc].allow : syscall \notin a
           /\ \A b \in config[loc].block : syscall \notin b

\* C4: if every probe of a syscall-stop's walk is Unknown the call is
\* permitted and the tracee resumed; hence under a policy with no entries,
\* or with no block sets, no execution returns IllegalSyscall.
C4_DefaultAllow ==
    /\ (SyscallStopDone
          /\ \A a \in Probed : UnknownProbe(hs.pid, a, hs.syscall)) =>
          /\ st = "handled"
          /\ result.kind = "none"
          /\ ops[Len(ops)] = Resume(hs.pid, "")
    /\ (\A loc \in DOMAIN config : config[loc].block = None) =>
          result.kind # "IllegalSyscall"

\* a call permitted after pc and x30 were both Unknown, one of them in an
\* object whose entry blocks other syscalls
C4_Witness ==
    /\ SyscallStopDone
    /\ st = "handled"
    /\ Len(ProbesOf(ops)) = 2
    /\ \A a \in Probed : UnknownProbe(hs.pid, a, hs.syscall)
    /\ \E a \in Probed : \E loc \in PathAt(hs.pid, a) :
          loc \in DOMAIN config /\ config[loc].block # None

\* C5: whenever the event loop returns Exited(k), k is the exit code of the
\* root child, whatever other traced processes exited with, also when a
\* descendant was given the root's process identifier after the root was
\* reaped.
C5_ExitedIsRootExit ==
    (st = "returned" /\ result.kind = "Exited") => Some(result.code) = root_exit

\* C6: the root's exit only records its code; execute returns only on ECHILD
\* (Exited with the recorded code, never without one) or on a blocked
\* syscall-stop (IllegalSyscall); syscall-stops after the root's exit are
\* still evaluated against the policy.
C6_ReturnsOnlyOnEChildOrBlock ==
    /\ st = "returned" =>
          \/ /\ result.kind = "Exited"
             /\ \A p \in Pids : proc[p] = "free"
             /\ child_exit = Some(result.code)
             /\ hs = NoCall
          \/ /\ result.kind = "IllegalSyscall"
             /\ hs # NoCall
             /\ ops[Len(ops)].op = "kill"
             /\ \E a \in Probed : VerdictAt(hs.pid, a, hs.syscall) = "Blocked"
    /\ result.kind # "none" => st = "returned"
    /\ (child_exit # None /\ SyscallStopDone) =>
          /\ ProbesOf(ops) # <<>>
          /\ (\E a \in Probed : VerdictAt(hs.pid, a, hs.syscall) = "Blocked")
                => ReturnedIllegal

\* a descendant's syscall blocked after the root's exit code was recorded
C6_Witness ==
    /\ ReturnedIllegal
    /\ child_exit # None
    /\ proc[child] = "free"

(* ------------------- claims about stops and events -------------------- *)
\* the first stop of the new tracee c is waiting to be reported
FirstStopPending(c) == \E s \in pend[c] : s.kind = "Stopped"

C12_WalkTerminates ==
    st = "walk" => hs.frame_pointer \notin DOMAIN hs.mem

\* the lookups and the reads of tracee memory among the calls of a step
WalkOps(log) == SelectSeq(log, LAMBDA o : o.op \in {"probe", "peek"})
Decisive(pid, addr, syscall) == VerdictAt(pid, addr, syscall) # "Unknown"

\* C13: probes are evaluated in the order pc, x30, then for each frame
\* record from x29 on the saved LR read at FP+8, then the previous FP read at
\* FP+0, until FP = 0; with FP = 0 (at first or after following the chain) no
\* tracee memory is read, and after a decisive saved LR the next frame
\* pointer is not read.
C13_ProbeOrder ==
    [][/\ (st = "wait" /\ hs' # NoCall) =>
            /\ WalkOps(ops') \in
                  {<<Probe(hs'.pid, hs'.pc)>>,
                   <<Probe(hs'.pid, hs'.pc), Probe(hs'.pid, hs'.x30)>>}
            /\ st' = "walk" =>
                  /\ Len(WalkOps(ops')) = 2
                  /\ hs'.x29 # 0
                  /\ hs'.frame_pointer = hs'.x29
            /\ hs'.x29 = 0 => st' # "walk"
       /\ st = "walk" =>
            /\ hs.frame_pointer # 0
            /\ WalkOps(ops')[1] = Peek(hs.pid, hs.frame_pointer + 8)
            /\ st' # "panicked" =>
                  /\ Len(WalkOps(ops')) >= 2
                  /\ WalkOps(ops')[2].op = "probe"
                  /\ IF Decisive(hs.pid, WalkOps(ops')[2].addr, hs.syscall)
                     THEN /\ Len(WalkOps(ops')) = 2
                          /\ st' \in {"handled", "returned"}
                     ELSE /\ Len(WalkOps(ops')) = 3
                          /\ WalkOps(ops')[3] = Peek(hs.pid, hs.frame_pointer)
                          /\ WalkOps(ops')[2].addr = hs'.mem[hs.frame_pointer + 8]
                          /\ hs'.frame_pointer = hs'.mem[hs.frame_pointer]
                          /\ st' = "walk" <=> hs'.frame_pointer # 0
      ]_vars

\* a walk that read a frame record whose saved LR was Unknown and whose saved
\* FP was 0
C13_Witness ==
    /\ st = "handled"
    /\ hs # NoCall
    /\ Len(WalkOps(ops)) = 3
    /\ ops[1] = Peek(hs.pid, hs.x29 + 8)
    /\ ops[3] = Peek(hs.pid, hs.x29)
    /\ hs.frame_pointer = 0

\* the call was permitted: the handler returned None and the tracee runs on
Permitted ==
    st = "handled" /\ result.kind = "none" /\ ops[Len(ops)] = Resume(hs.pid, "")
\* the call was blocked on the object addr lies in
BlockedAt(addr) ==
    /\ ReturnedIllegal
    /\ Some(result.path) = PathAt(hs.pid, addr)
    /\ result.syscall = hs.syscall
\* what the verdict at addr makes of the call
DecidedBy(addr) ==
    IF VerdictAt(hs.pid, addr, hs.syscall) = "Allowed" THEN Permitted ELSE BlockedAt(addr)

\* C14: the outcome at a syscall-stop is the verdict of the first decisive
\* probe in walk order; probes in no region or with verdict Unknown are
\* skipped; a first decisive Allowed permits even if a later probe would be
\* Blocked, a first decisive Blocked yields IllegalSyscall(n, its path) even
\* if a later probe would be Allowed; with no decisive probe the call is
\* permitted.
C14_FirstDecisive ==
    SyscallStopDone =>
        /\ \A a \in hs.earlier : ~Decisive(hs.pid, a, hs.syscall)
        /\ IF Decisive(hs.pid, hs.pc, hs.syscall) THEN DecidedBy(hs.pc)
           ELSE IF Decisive(hs.pid, hs.x30, hs.syscall) THEN DecidedBy(hs.x30)
           ELSE IF Decisive(hs.pid, LastProbe.addr, hs.syscall)
                THEN /\ DecidedBy(LastProbe.addr)
                     /\ ops[1] = Peek(hs.pid, SavedLrAddr(hs.frame_pointer))
           ELSE Permitted /\ hs.frame_pointer = 0

\* a call permitted by an Allowed pc although x30 lies in an object that
\* blocks the syscall
C14_Witness ==
    /\ SyscallStopDone
    /\ VerdictAt(hs.pid, hs.pc, hs.syscall) = "Allowed"
    /\ VerdictAt(hs.pid, hs.x30, hs.syscall) = "Blocked"
    /\ Permitted

\* the MemoryMap of an address space: its file-backed mappings by start
FilesOf(img) ==
    LET sel == SelectSeq(img, LAMBDA l : l.name # <<>> /\ l.name[1] = "/")
    IN  [i \in 1..Len(sel) |-> RegionOf(sel[i])]
\* position of the first call named name in log, 0 if there is none
FirstOp(log, name) ==
    IF \E i \in 1..Len(log) : log[i].op = name
    THEN Min({i \in 1..Len(log) : log[i].op = name}) ELSE 0
MapReads(log) == {i \in 1..Len(log) : log[i].op = "maps"}

\* C15: at a syscall-stop of p with syscall n, if n is execve, execveat,
\* clone, mmap, munmap or mremap then p's cached MemoryMap is replaced by a
\* fresh snapshot before any probe is looked up; for any other n the cached
\* map of p stays as it was (created from a snapshot only if p had none).
\* The cached maps of all other tracees are unchanged.
C15_MapRefresh ==
    [][(st = "wait" /\ hs' # NoCall) =>
          LET p == hs'.pid
          IN  /\ DOMAIN children' = DOMAIN children \cup {p}
              /\ \A q \in DOMAIN children \ {p} : children'[q] = children[q]
              /\ IF hs'.syscall \in
                      {"execve", "execveat", "clone", "mmap", "munmap", "mremap"}
                 THEN /\ children'[p] = FilesOf(aspace'[p])
                      /\ \E i \in MapReads(ops') :
                            /\ FirstOp(ops', "getregs") < i
                            /\ i < FirstOp(ops', "probe")
                 ELSE IF p \in DOMAIN children
                 THEN children'[p] = children[p]
                 ELSE children'[p] = FilesOf(aspace'[p])
      ]_vars

\* a syscall-stop with a number outside the set, handled with a cached map
\* that no longer matches the tracee's address space, next to another cached
\* tracee
C15_Witness ==
    /\ SyscallStopDone
    /\ hs.syscall = "write"
    /\ children[hs.pid] # FilesOf(aspace[hs.pid])
    /\ DOMAIN children # {hs.pid}

\* C16: after an exec event stop of p, the next syscall-stop of p replaces
\* p's cached MemoryMap with a snapshot of the new address space before
\* attribution, so no syscall of the new image is attributed with the
\* pre-exec map.  An exec is the only event that changes p's address space
\* without a syscall-stop that refreshes the map, so this says: every
\* syscall-stop is attributed with the map of the address space p has then.
C16_FreshAfterExec ==
    SyscallStopDone => children[hs.pid] = FilesOf(aspace[hs.pid])

\* C17: at a signal-stop of p with signal s, if s = SIGSTOP and p is in
\* ignore_next_stop then p is removed from the set and resumed with no
\* signal; in every other case p is resumed with s injected and the set is
\* unchanged.  So a mark suppresses at most one SIGSTOP of p and a signal
\* other than SIGSTOP never consumes it.
C17_SignalStop ==
    [][\A p \in Pids, s \in Signals :
          (st = "wait" /\ ops' # <<>> /\ ops'[1] = Waited("Stopped", p, s)) =>
             /\ st' = "handled"
             /\ IF s = "SIGSTOP" /\ p \in ignore_next_stop
                THEN /\ ignore_next_stop' = ignore_next_stop \ {p}
                     /\ ops' = <<Waited("Stopped", p, s), Resume(p, "")>>
                ELSE /\ ignore_next_stop' = ignore_next_stop
                     /\ ops' = <<Waited("Stopped", p, s), Resume(p, s)>>
      ]_vars

\* a marked tracee stopped by SIGUSR1: the signal is passed on and the mark
\* stays
C17_Witness ==
    /\ st = "handled"
    /\ \E p \in ignore_next_stop :
          ops = <<Waited("Stopped", p, "SIGUSR1"), Resume(p, "SIGUSR1")>>

\* C18: on a fork, vfork or clone event of p the new child's identifier,
\* obtained from the tracing interface, is added to ignore_next_stop and p
\* is resumed with no signal; if the identifier is in the set already the
\* supervisor aborts and returns no ChildExit.  No map entry is created for
\* the new child.
C18_ForkEvent ==
    [][\A p \in Pids, e \in ForkEvents :
          (st = "wait" /\ ops' # <<>> /\ ops'[1] = Waited(e, p, "")) =>
             \E s \in pend[p] :
                /\ s.kind = "ForkEvent"
                /\ ops'[2] = Op("geteventmsg", p, 0, "")
                /\ children' = children
                /\ result' = result
                /\ IF s.pid \in ignore_next_stop
                   THEN /\ st' = "panicked"
                        /\ Len(ops') = 2
                        /\ ignore_next_stop' = ignore_next_stop
                   ELSE /\ st' = "handled"
                        /\ ops' = <<ops'[1], ops'[2], Resume(p, "")>>
                        /\ ignore_next_stop' = ignore_next_stop \cup {s.pid}
      ]_vars

\* a vfork event handled: the new child is marked and has no map entry
C18_Witness ==
    /\ st = "handled"
    /\ Len(ops) = 3
    /\ ops[1].op = "waitpid"
    /\ ops[1].status = "VFORK"
    /\ ops[3] = Resume(ops[1].pid, "")
    /\ \E c \in ignore_next_stop : c \notin DOMAIN children /\ FirstStopPending(c)

(* ------------------------ claims about parse errors ------------------- *)
\* the non-blank lines of the text that fail the pattern
Offending == {k \in 1..Len(vmas) : vmas[k].kind = "short"}

\* C19: parsing returns RegexError carrying the offending line, and no
\* partial map, when a non-blank line fails the pattern, even a line that
\* would have been filtered out as a pseudo-region; a text all of whose
\* non-blank lines match the pattern, blank lines permitted, parses
\* successfully.
C19_RegexError ==
    parsed # NotParsed =>
        IF Offending # {}
        THEN /\ ~parsed.ok
             /\ parsed.err = "RegexError"
             /\ parsed.val = <<>>
             /\ \E k \in Offending : parsed.line = RenderLine(vmas[k])
        ELSE parsed.ok

(* ----------------------- claims about other statuses ------------------ *)
\* the process with identifier p is the root child (not a descendant that
\* was given the root's identifier after the root was reaped)
IsRoot(p) == p = child /\ root_exit = None

\* any wait status other than exit, syscall-stop, signal-stop, exec event
\* and fork, vfork or clone event aborts and returns no ChildExit
OtherStatusAborts ==
    \A p \in Pids, status \in {"Signaled", "VFORK_DONE", "EXIT", "EINTR"} :
        (st = "wait" /\ ops' # <<>> /\ ops'[1] = Waited(status, p, "")) =>
           /\ st' = "panicked"
           /\ result' = result
           /\ ops' = <<Waited(status, p, "")>>

\* the exit of a tracee other than the root is not fatal and changes no
\* supervisor state
OtherExitIgnored ==
    \A p \in Pids :
        (st = "wait" /\ ops' # <<>> /\ ops'[1] = Waited("Exited", p, "") /\ ~IsRoot(p)) =>
           /\ st' = "handled"
           /\ UNCHANGED <<config, children, ignore_next_stop, child_exit, result>>

\* C20: any wait status other than the exit of a process, a syscall-stop, a
\* signal-stop, an exec event or a fork, vfork or clone event is a fatal
\* abort that returns no ChildExit, also a tracee killed by a signal and the
\* vfork-done and exit events; the exit of a non-root tracee is not fatal
\* and changes no supervisor state.
C20_OtherStatusFatal ==
    [][OtherStatusAborts /\ OtherExitIgnored]_vars

(* ------------------------- claims about resumes ----------------------- *)
\* the wait statuses that report a stopped tracee
StopStatuses == {"PtraceSyscall", "Stopped", "EXEC", "FORK", "VFORK", "CLONE"}
\* the step at hand handles a stop, and of which tracee
HandlingStop ==
    \/ hs # NoCall
    \/ ops # <<>> /\ ops[1].op = "waitpid" /\ ops[1].status \in StopStatuses
StoppedPid == IF hs # NoCall THEN hs.pid ELSE ops[1].pid

\* a resume is only issued as the last call of the handling of a stop, once,
\* to the tracee whose stop is handled; a stop whose handling came to its end
\* without a return or an abort was answered by one
OneResumePerStop ==
    /\ ResumesOf(ops) # <<>> =>
          /\ st = "handled"
          /\ HandlingStop
          /\ Len(ResumesOf(ops)) = 1
          /\ ops[Len(ops)].op = "syscall"
          /\ ops[Len(ops)].pid = StoppedPid
    /\ (st = "handled" /\ HandlingStop) => Len(ResumesOf(ops)) = 1

\* the handling of a syscall-stop comes to its end: the frame loop never
\* stands at a record it has read before (the tracee is stopped, so the
\* turn would repeat for ever)
StopHandlingEnds ==
    st = "walk" => hs.frame_pointer \notin DOMAIN hs.mem

\* C21: no tracee is left stopped by the supervisor: every stop reported by
\* waitpid (syscall-stop, signal-stop, exec event, fork, vfork or clone
\* event) is answered by exactly one resume of that tracee before the next
\* waitpid, unless the supervisor returns IllegalSyscall or aborts while
\* handling it; no resume goes to any other tracee.
C21_EveryStopResumed ==
    OneResumePerStop /\ StopHandlingEnds

=============================================================================
